---- MODULE Spec2Model ----
(***************************************************************************)
(* NOTAM-Pager: the polling orchestrator (src/index.js), the seen-set      *)
(* store (stateManager.js) and their interleavings with the HTTP control   *)
(* surface, process exits and restarts.                                    *)
(*                                                                         *)
(* A notice is modelled by its id: formatNotam keeps the id of a fetched   *)
(* record, and the orchestrator compares ids only.  Every action is the    *)
(* code that runs between two awaits of the single-threaded event loop.    *)
(***************************************************************************)
EXTENDS Naturals, Sequences, FiniteSets, TLC

(* ------------------------------- bounds -------------------------------- *)
\* number of distinct notice ids the source can return
NumIds == 3
\* longest fetch result
MaxFetch == 2
\* the seen-set cap (1000 in markNotamAsSeen), scaled down so that eviction happens
MaxSeen == 2
\* ids beyond the cap marked in the store-only specification
MaxExtra == 3
\* number of distinct notice ids in the specification with fairness
NumLiveIds == 2
\* longest seenNotams array of a state file found at startup
MaxStored == 3
\* number of fetches followed in the identifier specification
MaxPolls == 3
\* longest list of notices returned by the fetch of the initial poll
MaxFirstFetch == 3
\* longest text and longest reference number of a notice handed to the sanitizer
MaxText == 5
MaxNumber == 1
\* String.prototype.slice(0, 80) of the synthesized id
FallbackMaxLen == 80

Ids == 1 .. NumIds
\* the id whose deliveries the history variable deliveredBefore follows
Watched == CHOOSE id \in Ids : \A other \in Ids : id <= other
MarkIds == 1 .. (MaxSeen + MaxExtra)
\* who invokes pollNotams: startPolling (its initial poll, then the interval), or POST /poll
Callers == {"scheduled", "manual"}

VARIABLES
  STARTUP_SEND_LATEST,  \* index.js:18, fixed at process configuration
  proc,                 \* "down" | "loading" | "initial" | "up" | "exited": position of
                        \* startPolling, or the process is not running ("exited": it
                        \* ended by process.exit(0) of a signal handler)
  state,                \* index.js:34, the in-memory state.seenNotams
  pollingTimer,         \* index.js:35, TRUE when the interval is set
  isPolling,            \* index.js:36
  startupProbePending,  \* index.js:37
  cyc,                  \* one activation record of pollNotams per caller
  disk,                 \* notam-state.json: [valid, seenNotams]
  resetSaving,          \* the saveState of POST /reset is in flight
  deliveredBefore,      \* history: an earlier cycle (of any process) has sent the notice
                        \* with id Watched successfully
  held,                 \* history: ids sent successfully by an earlier cycle of this
                        \* process that have been in state ever since
  lostOK,               \* history, kept until the next fetch returns: ids sent
                        \* successfully in the cycle that the last process exit cut
                        \* in its delivery queue
  savedOnce,            \* history: a cycle of this process has reached its save step
  markLog,              \* history of the store-only specification: ids inserted, in order
  FAA_NMS_API_URL,      \* notamFetcher.js:6, fixed at process configuration: whether the
                        \* configured string parses as a URL
  dropped,              \* history: the guard of pollNotams has dropped an invocation since
                        \* the last cycle started
  startup,              \* the startup specification: the stored file, the position of
                        \* startPolling, the value loadState returned
  lastPoll,             \* the identifier specification: the raw record last returned by
                        \* the source, its id, whether it was new, the records delivered
  fetchedSome,          \* history: the fetch of a cycle of this process has returned
                        \* at least one notice
  cleaning              \* the sanitizer specification: the notice handed to
                        \* cleanMessage and the message it returned

vars == <<STARTUP_SEND_LATEST, proc, state, pollingTimer, isPolling, startupProbePending,
          cyc, disk, resetSaving, deliveredBefore, held, lostOK, savedOnce, markLog,
          FAA_NMS_API_URL, dropped, startup, lastPoll, fetchedSome, cleaning>>

(* ------------------------------ helpers -------------------------------- *)
Range(s) == {s[i] : i \in 1 .. Len(s)}

SeqsUpTo(S, n) == UNION {[1 .. k -> S] : k \in 0 .. n}

\* Array.prototype.slice(-n)
SliceLast(s, n) == IF Len(s) <= n THEN s ELSE SubSeq(s, Len(s) - n + 1, Len(s))

RECURSIVE Filter(_, _)
\* Array.prototype.filter with the predicate "id not in seen"
Filter(s, seen) ==
  IF s = <<>> THEN <<>>
  ELSE IF Head(s) \in seen THEN Filter(Tail(s), seen)
       ELSE <<Head(s)>> \o Filter(Tail(s), seen)

(* --------------------------- stateManager.js --------------------------- *)
hasSeenNotam(notamId, st) == notamId \in Range(st)

markNotamAsSeenNoCap(notamId, st) ==
  IF ~hasSeenNotam(notamId, st) THEN Append(st, notamId) ELSE st

markNotamAsSeenDropNewest(notamId, st) ==
  IF ~hasSeenNotam(notamId, st)
    THEN IF Len(st) + 1 > MaxSeen THEN st ELSE Append(st, notamId)
    ELSE st

markNotamAsSeenAlways(notamId, st) == SliceLast(Append(st, notamId), MaxSeen)

markNotamAsSeen(notamId, st) ==
  IF ~hasSeenNotam(notamId, st)
    THEN SliceLast(Append(st, notamId), MaxSeen)
    ELSE st

getNewNotamsAll(notams, st) == notams

getNewNotamsSeen(notams, st) == Filter(notams, Ids \ Range(st))

getNewNotamsReversed(notams, st) ==
  LET new == Filter(notams, Range(st))
  IN [i \in 1 .. Len(new) |-> new[Len(new) + 1 - i]]

getNewNotams(notams, st) == Filter(notams, Range(st))

\* loadState: the parsed file, or the empty state when reading or parsing fails
Load(file) == IF file.valid THEN file.seenNotams ELSE <<>>
loadState == Load(disk)

NoFile == [valid |-> FALSE, seenNotams |-> <<>>]
File(st) == [valid |-> TRUE, seenNotams |-> st]

\* saveState: fs.writeFile either replaces the file, or fails (caught and logged)
\* leaving the old file or a truncated one
SaveOutcomes == {"written", "failed", "truncated"}
Written(content, outcome) ==
  CASE outcome = "written" -> File(content)
    [] outcome = "failed" -> disk
    [] outcome = "truncated" -> NoFile

(* ------------------------------ index.js ------------------------------- *)
\* an activation of pollNotams: its position, its locals forceSendLatest and queue, the
\* loop index, the save's serialized argument; and, as history, the first fetched id (0 for
\* an empty fetch), whether the probe item was appended, whether newNotams was empty,
\* whether the SeenSet was empty at the diff, how many of the new ids had been delivered
\* by the cycle that the last exit cut, and the sends made with their results
Idle == [pc |-> "idle", force |-> FALSE, first |-> 0, queue |-> <<>>, idx |-> 0,
         probe |-> FALSE, noneNew |-> FALSE, seen0 |-> FALSE, again |-> 0,
         attempts |-> <<>>, content |-> <<>>]

Active(c) == cyc[c].pc # "idle"

\* lines 105-107: the finally block clears the guard on every way out of the try
ReleasedKept == isPolling

Released == FALSE

\* the re-entrancy guard of pollNotams
BusyNever == FALSE

Busy == isPolling

\* the delivery queue: the new notices, or the startup probe item
BuildQueueLast(force, newNotams, notams) ==
  IF force /\ Len(newNotams) = 0 /\ Len(notams) > 0
    THEN Append(newNotams, notams[Len(notams)])
    ELSE newNotams

BuildQueueNoProbe(force, newNotams, notams) == newNotams

BuildQueue(force, newNotams, notams) ==
  IF force /\ Len(newNotams) = 0 /\ Len(notams) > 0
    THEN Append(newNotams, notams[1])
    ELSE newNotams

\* the one-shot flag after the save step
ProbePendingAfterKept(force, pending) == pending

ProbePendingAfter(force, pending) == IF force THEN FALSE ELSE pending

\* lines 85-92: the id is marked when the transport reported success
AfterSendAlways(ok, id, st) == markNotamAsSeen(id, st)

AfterSend(ok, id, st) == IF ok THEN markNotamAsSeen(id, st) ELSE st

\* line 95: where the activation is after a send has returned; the delay is awaited
\* whatever the result was
AfterSendReturnFailedEnds(ok) == IF ok THEN "delay" ELSE "save"

AfterSendReturn(ok) == "delay"

\* line 75: the for-of loop goes on while queued notices are left
MoreToSendUnlessFailed(me) ==
  me.idx < Len(me.queue) /\ me.attempts[Len(me.attempts)].ok

MoreToSendNever(me) == FALSE

MoreToSend(me) == me.idx < Len(me.queue)

\* the transport sendToPagerApi (pagerApi.js): it resolves to a result whose success
\* field is true or false, and reports errors in the result instead of throwing
SendResults == BOOLEAN

\* ids sent successfully so far by an activation
OkOf(me) == {me.attempts[i].id : i \in {j \in 1 .. Len(me.attempts) : me.attempts[j].ok}}
OkIds(c) == OkOf(cyc[c])

AllOkIds == UNION {OkIds(c) : c \in Callers}

\* FAA_NMS_API_URL is required to be set (index.js:26) but not to be a URL: new URL(...)
\* at notamFetcher.js:48 accepts it or throws
UrlKinds == {"parses", "malformed"}

\* the variables of the startup, identifier and sanitizer specifications, unused
\* elsewhere
NoStartup == [pos |-> "unused"]
NoPoll == [pos |-> "unused"]
NoCleaning == [pos |-> "unused"]

Init ==
  /\ STARTUP_SEND_LATEST \in BOOLEAN
  /\ proc = "down"
  /\ state = <<>>
  /\ pollingTimer = FALSE
  /\ isPolling = FALSE
  /\ startupProbePending = TRUE
  /\ cyc = [c \in Callers |-> Idle]
  /\ disk = NoFile
  /\ resetSaving = FALSE
  /\ deliveredBefore = FALSE
  /\ held = {}
  /\ savedOnce = FALSE
  /\ lostOK = {}
  /\ markLog = <<>>
  /\ FAA_NMS_API_URL \in UrlKinds
  /\ dropped = FALSE
  /\ startup = NoStartup
  /\ lastPoll = NoPoll
  /\ fetchedSome = FALSE
  /\ cleaning = NoCleaning


\* pollNotams, lines 46-58: the guard, then the flag is set and the fetch is awaited
PollEnter(c) ==
  IF Busy
    THEN /\ dropped' = TRUE
         /\ UNCHANGED <<isPolling, cyc>>
    ELSE /\ dropped' = FALSE
         /\ isPolling' = TRUE
         /\ cyc' = [cyc EXCEPT ![c] = [Idle EXCEPT !.pc = "fetch",
                                        !.force = startupProbePending /\ STARTUP_SEND_LATEST]]

\* the process is running
Running == proc \notin {"down", "exited"}

\* the process is launched: module state of lines 34-37, app.listen callback,
\* startPolling up to its await of loadState
Start ==
  /\ ~Running
  /\ proc' = "loading"
  /\ UNCHANGED <<STARTUP_SEND_LATEST, FAA_NMS_API_URL, cleaning, fetchedSome, dropped,
                 startup, lastPoll,
                 state, pollingTimer, isPolling, startupProbePending,
                 cyc, disk, resetSaving, deliveredBefore, held, lostOK, savedOnce,
                 markLog>>

\* startPolling, lines 117-124: the loaded state replaces the in-memory one, the
\* initial poll is invoked; when the guard drops it the interval is set at once
LoadDone ==
  /\ proc = "loading"
  /\ state' = loadState
  /\ held' = held \cap Range(state')
  /\ PollEnter("scheduled")
  /\ proc' = IF Busy THEN "up" ELSE "initial"
  /\ pollingTimer' = Busy
  /\ UNCHANGED <<STARTUP_SEND_LATEST, FAA_NMS_API_URL, cleaning, fetchedSome, startup, lastPoll,
                 startupProbePending, disk, resetSaving,
                 deliveredBefore, lostOK, savedOnce, markLog>>

\* setInterval(pollNotams, POLL_INTERVAL) fires
Tick ==
  /\ proc = "up"
  /\ pollingTimer
  /\ PollEnter("scheduled")
  /\ UNCHANGED <<STARTUP_SEND_LATEST, FAA_NMS_API_URL, cleaning, fetchedSome, startup, lastPoll,
                 proc, state, pollingTimer, startupProbePending, disk,
                 resetSaving, deliveredBefore, held, lostOK, savedOnce, markLog>>

\* POST /poll, lines 167-175
ManualPoll ==
  /\ Running
  /\ PollEnter("manual")
  /\ UNCHANGED <<STARTUP_SEND_LATEST, FAA_NMS_API_URL, cleaning, fetchedSome, startup, lastPoll,
                 proc, state, pollingTimer, startupProbePending, disk,
                 resetSaving, deliveredBefore, held, lostOK, savedOnce, markLog>>

\* pollNotams, lines 58-83 (or 58-99 with an empty queue): the fetch returns, the
\* new notices are computed, the queue is built, the first send (or the save) starts
FetchReturn(c, list) ==
  /\ cyc[c].pc = "fetch"
  /\ FAA_NMS_API_URL = "parses"
  /\ LET me == cyc[c]
         newNotams == getNewNotams(list, state)
         queue == BuildQueue(me.force, newNotams, list)
         rec == [me EXCEPT !.first = IF list = <<>> THEN 0 ELSE list[1],
                           !.queue = queue,
                           !.probe = (queue # newNotams),
                           !.noneNew = (newNotams = <<>>),
                           !.seen0 = (state = <<>>),
                           !.again = Cardinality(Range(newNotams) \cap lostOK)]
     IN IF queue = <<>>
          THEN /\ cyc' = [cyc EXCEPT ![c] = [rec EXCEPT !.pc = "save", !.content = state]]
               /\ savedOnce' = TRUE
          ELSE /\ cyc' = [cyc EXCEPT ![c] = [rec EXCEPT !.pc = "send", !.idx = 1]]
               /\ UNCHANGED savedOnce
  /\ lostOK' = {}
  /\ fetchedSome' = (fetchedSome \/ list # <<>>)
  /\ UNCHANGED <<STARTUP_SEND_LATEST, FAA_NMS_API_URL, cleaning, dropped, startup,
                 lastPoll, proc, state, pollingTimer, isPolling,
                 startupProbePending, disk, resetSaving, deliveredBefore, held, markLog>>

\* notamFetcher.js:48 and pollNotams, lines 58 and 103-107: new URL(FAA_NMS_API_URL) throws
\* outside the try of fetchNotams, the await in pollNotams rejects, the catch logs and the
\* finally clears the guard; the save and the clearing of the one-shot flag are skipped;
\* startPolling, line 124, when this was the initial poll
FetchThrows(c) ==
  /\ cyc[c].pc = "fetch"
  /\ FAA_NMS_API_URL = "malformed"
  /\ isPolling' = Released
  /\ cyc' = [cyc EXCEPT ![c] = Idle]
  /\ proc' = IF c = "scheduled" THEN "up" ELSE proc
  /\ pollingTimer' = IF c = "scheduled" THEN TRUE ELSE pollingTimer
  /\ UNCHANGED <<STARTUP_SEND_LATEST, FAA_NMS_API_URL, cleaning, fetchedSome, dropped,
                 startup, lastPoll, state,
                 startupProbePending, disk, resetSaving, deliveredBefore, held, lostOK,
                 savedOnce, markLog>>

\* pollNotams, lines 83-95: the transport returns its result; on success the id is
\* marked; the inter-message delay starts
SendReturn(c, ok) ==
  /\ cyc[c].pc = "send"
  /\ LET me == cyc[c]
         id == me.queue[me.idx]
     IN /\ state' = AfterSend(ok, id, state)
        /\ cyc' = [cyc EXCEPT ![c] = [me EXCEPT !.pc = AfterSendReturn(ok),
                                       !.attempts = Append(@, [id |-> id, ok |-> ok])]]
  /\ held' = held \cap Range(state')
  /\ UNCHANGED <<STARTUP_SEND_LATEST, FAA_NMS_API_URL, cleaning, fetchedSome, dropped,
                 startup, lastPoll,
                 proc, pollingTimer, isPolling, startupProbePending,
                 disk, resetSaving, deliveredBefore, lostOK, savedOnce, markLog>>

\* pollNotams, lines 95-99: the delay elapses; the next send starts, or after the
\* last queued notice saveState(state) is called
DelayDone(c) ==
  /\ cyc[c].pc = "delay"
  /\ LET me == cyc[c]
     IN IF MoreToSend(me)
          THEN /\ cyc' = [cyc EXCEPT ![c] = [me EXCEPT !.pc = "send", !.idx = @ + 1]]
               /\ UNCHANGED savedOnce
          ELSE /\ cyc' = [cyc EXCEPT ![c] = [me EXCEPT !.pc = "save", !.content = state]]
               /\ savedOnce' = TRUE
  /\ UNCHANGED <<STARTUP_SEND_LATEST, FAA_NMS_API_URL, cleaning, fetchedSome, dropped,
                 startup, lastPoll,
                 proc, state, pollingTimer, isPolling,
                 startupProbePending, disk, resetSaving, deliveredBefore, held, lostOK,
                 markLog>>

\* pollNotams, lines 99-107: the save returns, the one-shot flag and the guard are
\* cleared; startPolling, line 124, when this was the initial poll
SaveDone(c, outcome) ==
  /\ cyc[c].pc = "save"
  /\ disk' = Written(cyc[c].content, outcome)
  /\ startupProbePending' = ProbePendingAfter(cyc[c].force, startupProbePending)
  /\ isPolling' = Released
  /\ cyc' = [cyc EXCEPT ![c] = Idle]
  /\ proc' = IF c = "scheduled" THEN "up" ELSE proc
  /\ pollingTimer' = IF c = "scheduled" THEN TRUE ELSE pollingTimer
  /\ deliveredBefore' = (deliveredBefore \/ Watched \in OkIds(c))
  /\ held' = (held \cup OkIds(c)) \cap Range(state)
  /\ UNCHANGED <<STARTUP_SEND_LATEST, FAA_NMS_API_URL, cleaning, fetchedSome, dropped,
                 startup, lastPoll,
                 state, resetSaving, lostOK, savedOnce, markLog>>

\* POST /reset, lines 178-180: the in-memory state is replaced, saveState is awaited
Reset ==
  /\ Running
  /\ ~resetSaving
  /\ state' = <<>>
  /\ resetSaving' = TRUE
  /\ held' = {}
  /\ UNCHANGED <<STARTUP_SEND_LATEST, FAA_NMS_API_URL, cleaning, fetchedSome, dropped,
                 startup, lastPoll,
                 proc, pollingTimer, isPolling, startupProbePending,
                 cyc, disk, deliveredBefore, lostOK, savedOnce, markLog>>

\* POST /reset, lines 180-184: its save returns
ResetSaveDone(outcome) ==
  /\ resetSaving
  /\ disk' = Written(<<>>, outcome)
  /\ resetSaving' = FALSE
  /\ UNCHANGED <<STARTUP_SEND_LATEST, FAA_NMS_API_URL, cleaning, fetchedSome, dropped,
                 startup, lastPoll,
                 proc, state, pollingTimer, isPolling,
                 startupProbePending, cyc, deliveredBefore, held, lostOK, savedOnce,
                 markLog>>

\* what the file can hold after the process dies with writes in flight
DiskAfterExit ==
  {disk}
    \cup {File(cyc[c].content) : c \in {k \in Callers : cyc[k].pc = "save"}}
    \cup (IF resetSaving THEN {File(<<>>)} ELSE {})
    \cup (IF resetSaving \/ \E c \in Callers : cyc[c].pc = "save" THEN {NoFile} ELSE {})

InQueue(c) == cyc[c].pc \in {"send", "delay"}

\* the process ends: everything in memory is gone, an in-flight cycle is cut
Exit(how) ==
  /\ Running
  /\ proc' = how
  /\ state' = <<>>
  /\ pollingTimer' = FALSE
  /\ isPolling' = FALSE
  /\ startupProbePending' = TRUE
  /\ cyc' = [c \in Callers |-> Idle]
  /\ disk' \in DiskAfterExit
  /\ resetSaving' = FALSE
  /\ deliveredBefore' = (deliveredBefore \/ Watched \in AllOkIds)
  /\ held' = {}
  /\ savedOnce' = FALSE
  /\ lostOK' = UNION {OkIds(c) : c \in {k \in Callers : InQueue(k)}}
  /\ dropped' = FALSE
  /\ fetchedSome' = FALSE
  /\ UNCHANGED <<STARTUP_SEND_LATEST, FAA_NMS_API_URL, cleaning, startup, lastPoll, markLog>>

\* the process crashes or is killed
Crash == Exit("down")

\* SIGTERM / SIGINT, lines 199-209: stopPolling, then process.exit(0), which ends the
\* process at once whatever is awaited
Sigterm == Exit("exited")

Next ==
  \/ Start
  \/ LoadDone
  \/ Tick
  \/ ManualPoll
  \/ \E c \in Callers, list \in SeqsUpTo(Ids, MaxFetch) : FetchReturn(c, list)
  \/ \E c \in Callers : FetchThrows(c)
  \/ \E c \in Callers, ok \in SendResults : SendReturn(c, ok)
  \/ \E c \in Callers : DelayDone(c)
  \/ \E c \in Callers, outcome \in SaveOutcomes : SaveDone(c, outcome)
  \/ Reset
  \/ \E outcome \in SaveOutcomes : ResetSaveDone(outcome)
  \/ Crash
  \/ Sigterm

Spec == Init /\ [][Next]_vars

(* ------------------- the seen-set store on its own --------------------- *)
\* markNotamAsSeen applied to an id the store does not hold
MarkNew(id) ==
  /\ ~hasSeenNotam(id, state)
  /\ Len(markLog) < MaxSeen + MaxExtra
  /\ state' = markNotamAsSeen(id, state)
  /\ markLog' = Append(markLog, id)
  /\ UNCHANGED <<STARTUP_SEND_LATEST, FAA_NMS_API_URL, cleaning, fetchedSome, dropped,
                 startup, lastPoll,
                 proc, pollingTimer, isPolling, startupProbePending,
                 cyc, disk, resetSaving, deliveredBefore, held, lostOK, savedOnce>>

\* markNotamAsSeen applied to an id the store holds
MarkAgain(id) ==
  /\ hasSeenNotam(id, state)
  /\ state' = markNotamAsSeen(id, state)
  /\ UNCHANGED <<STARTUP_SEND_LATEST, FAA_NMS_API_URL, cleaning, fetchedSome, dropped,
                 startup, lastPoll,
                 proc, pollingTimer, isPolling, startupProbePending,
                 cyc, disk, resetSaving, deliveredBefore, held, lostOK, savedOnce, markLog>>

MarkInit == Init /\ STARTUP_SEND_LATEST /\ FAA_NMS_API_URL = "parses"

MarkNext ==
  \/ \E id \in MarkIds : MarkNew(id)
  \/ \E id \in MarkIds : MarkAgain(id)

SpecMark == MarkInit /\ [][MarkNext]_vars

(* ------------------- startup from any stored file ---------------------- *)
\* what notam-state.json can be when the process starts: no file, a file that cannot be
\* read, text that is not JSON, JSON without a seenNotams member (null, {}, [], 42), JSON
\* whose seenNotams is not an array ({"seenNotams": {}}), or a record with an array of ids
FileConditions ==
  {"absent", "unreadable", "unparseable", "noSeenNotams", "seenNotamsNotArray", "record"}

NoStored == [cond |-> "absent", seenNotams |-> <<>>]

StoredFiles ==
  {[cond |-> k, seenNotams |-> <<>>] : k \in FileConditions \ {"record"}}
    \cup {[cond |-> "record", seenNotams |-> st] : st \in SeqsUpTo(Ids, MaxStored)}

\* loadState, lines 109-117: readFile or JSON.parse throws and the empty state is
\* returned; otherwise whatever JSON.parse returned is returned as it is
loadStateOf(file) ==
  IF file.cond \in {"absent", "unreadable", "unparseable"}
    THEN [shape |-> "record", seenNotams |-> <<>>]
    ELSE [shape |-> file.cond, seenNotams |-> file.seenNotams]

\* the variables the startup specification leaves alone
NotStartup ==
  <<STARTUP_SEND_LATEST, proc, state, pollingTimer, isPolling, startupProbePending, cyc,
    disk, resetSaving, deliveredBefore, held, lostOK, savedOnce, markLog, FAA_NMS_API_URL,
    dropped, lastPoll, fetchedSome, cleaning>>

\* the process is launched with the given file in place: app.listen callback,
\* startPolling up to its await of loadState
Launch(file) ==
  /\ startup = NoStartup
  /\ startup' = [pos |-> "start", file |-> file, value |-> loadStateOf(NoStored),
                 fetched |-> <<>>, newNotams |-> <<>>, queue |-> <<>>,
                 attempts |-> <<>>]
  /\ UNCHANGED NotStartup

\* startPolling, lines 117-121: the state is loaded; line 118 reads
\* state.seenNotams.length, which throws when the loaded value has no seenNotams (then
\* startPolling rejects and the initial poll is never made); otherwise pollNotams is invoked
LoadAny ==
  /\ startup.pos = "start"
  /\ LET value == loadStateOf(startup.file)
     IN startup' = [startup EXCEPT !.value = value,
                                   !.pos = IF value.shape = "noSeenNotams"
                                             THEN "rejected" ELSE "polling"]
  /\ UNCHANGED NotStartup

\* pollNotams, lines 58-66, in the initial poll: getNewNotams calls
\* state.seenNotams.includes for each fetched notice, which throws when seenNotams is
\* not an array (the catch of line 103 ends the cycle); lines 68-72 build the queue
FirstDiff(list) ==
  /\ startup.pos = "polling"
  /\ startup' =
       IF startup.value.shape = "seenNotamsNotArray"
         THEN [startup EXCEPT !.pos = IF list = <<>> THEN "diffed" ELSE "cycleThrew",
                              !.fetched = list]
         ELSE LET newNotams == getNewNotams(list, startup.value.seenNotams)
              IN [startup EXCEPT !.pos = "diffed",
                                 !.fetched = list,
                                 !.newNotams = newNotams,
                                 !.queue = BuildQueue(STARTUP_SEND_LATEST, newNotams, list)]
  /\ UNCHANGED NotStartup

\* pollNotams, lines 75-96, in the initial poll: the next queued notice is sent, the
\* transport returns its result and the id is marked on success
FirstSend(ok) ==
  /\ startup.pos = "diffed"
  /\ Len(startup.attempts) < Len(startup.queue)
  /\ LET id == startup.queue[Len(startup.attempts) + 1]
     IN startup' =
          [startup EXCEPT !.attempts = Append(@, [id |-> id, ok |-> ok]),
                          !.value = [@ EXCEPT !.seenNotams = AfterSend(ok, id, @)]]
  /\ UNCHANGED NotStartup

LoadInit ==
  /\ Init
  /\ STARTUP_SEND_LATEST
  /\ FAA_NMS_API_URL = "parses"

LoadNext ==
  \/ \E file \in StoredFiles : Launch(file)
  \/ LoadAny
  \/ \E list \in SeqsUpTo(Ids, MaxFirstFetch) : FirstDiff(list)
  \/ \E ok \in SendResults : FirstSend(ok)

SpecLoad == LoadInit /\ [][LoadNext]_vars

(* ---------------------- the identifier of a notice --------------------- *)
\* strings are sequences of characters; the empty string is what an absent or empty
\* member of an upstream record reads as (both are falsy in the || chains)
Empty == <<>>

RECURSIVE TrimStart(_)
TrimStart(str) ==
  IF str # Empty /\ Head(str) = " " THEN TrimStart(Tail(str)) ELSE str

RECURSIVE TrimEnd(_)
TrimEnd(str) ==
  IF str # Empty /\ str[Len(str)] = " " THEN TrimEnd(SubSeq(str, 1, Len(str) - 1)) ELSE str

\* String.prototype.trim
Trim(str) == TrimEnd(TrimStart(str))

\* String.prototype.slice(0, n)
SliceFirst(str, n) == IF Len(str) <= n THEN str ELSE SubSeq(str, 1, n)

\* the upstream records: an identifier member (id, notamId, notamNumber, key or
\* transactionId), a location member (location, icao or icaoId), startTime, and the text
RawIds == {Empty, <<"7">>}
RawLocations == {Empty, <<" ">>, <<"K">>}
RawStartTimes == {Empty, <<"1">>}
RawTexts == {<<"a">>, <<"b">>}
RawNotams == [id : RawIds, location : RawLocations, startTime : RawStartTimes,
              text : RawTexts]

\* line 17: the process time and random digits, different at every call
Token(n) == <<"n", "o", "t", "a", "m", "_">> \o [i \in 1 .. n |-> "x"]

\* getNotamId, lines 12-18
getNotamId(notam, n) ==
  IF notam.id # Empty
    THEN notam.id
    ELSE LET fallback == notam.location \o <<"_">> \o notam.startTime
         IN IF Trim(fallback) # Empty
              THEN SliceFirst(fallback, FallbackMaxLen)
              ELSE Token(n)

\* formatNotam, lines 20-39: the formatted notice has the members id, text, number and
\* raw; it has no location and no startTime of its own
formatNotam(raw, n) ==
  [id |-> getNotamId(raw, n), location |-> Empty, startTime |-> Empty, text |-> raw.text]

\* the id pollNotams compares: fetchNotams formats each upstream record (line 90) and
\* index.js:62 formats the formatted notice once more
NoticeId(raw, n) == formatNotam(formatNotam(raw, n), n + 1).id

\* the variables the identifier specification leaves alone
NotIdentifier ==
  <<STARTUP_SEND_LATEST, proc, pollingTimer, isPolling, startupProbePending, cyc, disk,
    resetSaving, deliveredBefore, held, lostOK, savedOnce, markLog, FAA_NMS_API_URL,
    dropped, startup, fetchedSome, cleaning>>

Polls == IF lastPoll = NoPoll THEN 0 ELSE lastPoll.n
Delivered == IF lastPoll = NoPoll THEN {} ELSE lastPoll.delivered

\* one poll cycle whose fetch returns the upstream record raw: index.js:58-92, the diff
\* against the SeenSet, the send of a new notice, the mark when the send succeeded
PollOne(raw, ok) ==
  /\ Polls < MaxPolls
  /\ LET id == NoticeId(raw, 2 * Polls + 1)
         new == getNewNotams(<<id>>, state) # <<>>
     IN /\ state' = IF new THEN AfterSend(ok, id, state) ELSE state
        /\ lastPoll' = [pos |-> "polled", n |-> Polls + 1, raw |-> raw, id |-> id,
                        new |-> new, earlier |-> Delivered,
                        delivered |-> IF new /\ ok THEN Delivered \cup {raw}
                                                   ELSE Delivered]
  /\ UNCHANGED NotIdentifier

IdInit == LoadInit

IdNext == \E raw \in RawNotams, ok \in SendResults : PollOne(raw, ok)

SpecId == IdInit /\ [][IdNext]_vars

(* --------------------------- messageClean.js --------------------------- *)
\* a string is the sequence of its UTF-16 code units. The units followed: a letter, a
\* newline, a variation selector (U+FE0F), the zero width joiner (U+200D), and the
\* surrogates D83D and DE00: side by side the two are the code point U+1F600 of the
\* emoticon range, apart each is a code point of no stripped range
Units == {"a", "nl", "vs", "zwj", "hi", "lo"}

RECURSIVE StripEmoticons(_)
\* line 16, replace(/[\u{1F600}-\u{1F64F}]/gu, ''): with the u flag the pattern is
\* matched against code points, read left to right; a surrogate pair is one code point
StripEmoticons(str) ==
  IF str = Empty THEN Empty
  ELSE IF Len(str) >= 2 /\ str[1] = "hi" /\ str[2] = "lo"
         THEN StripEmoticons(Tail(Tail(str)))
         ELSE <<Head(str)>> \o StripEmoticons(Tail(str))

RECURSIVE StripUnit(_, _)
\* lines 25 and 26, replace(/[...]/gu, '') for a range of the basic plane
StripUnit(str, unit) ==
  IF str = Empty THEN Empty
  ELSE IF Head(str) = unit THEN StripUnit(Tail(str), unit)
       ELSE <<Head(str)>> \o StripUnit(Tail(str), unit)

RECURSIVE TrimLines(_)
\* String.prototype.trim on a string whose only white space is newlines
TrimLines(str) ==
  IF str # Empty /\ str[1] = "nl" THEN TrimLines(Tail(str))
  ELSE IF str # Empty /\ str[Len(str)] = "nl"
         THEN TrimLines(SubSeq(str, 1, Len(str) - 1))
         ELSE str

\* removeEmojis, lines 11-28: the replacements are made one after the other, each over
\* the result of the one before (lines 17-24 strip ranges none of the units is in)
removeEmojis(text) ==
  IF text = Empty THEN Empty
  ELSE TrimLines(StripUnit(StripUnit(StripEmoticons(text), "vs"), "zwj"))

RECURSIVE LeadingNewlines(_)
LeadingNewlines(str) ==
  IF str # Empty /\ str[1] = "nl" THEN 1 + LeadingNewlines(Tail(str)) ELSE 0

RECURSIVE CollapseNewlines(_)
\* line 63, replace(/\n{3,}/g, '\n\n')
CollapseNewlines(str) ==
  IF str = Empty THEN Empty
  ELSE LET run == LeadingNewlines(str)
       IN IF run = 0 THEN <<Head(str)>> \o CollapseNewlines(Tail(str))
          ELSE (IF run >= 3 THEN <<"nl", "nl">> ELSE SubSeq(str, 1, run))
                 \o CollapseNewlines(SubSeq(str, run + 1, Len(str)))

\* index.js:15, the default airport code; the literals of cleanMessage and the local
\* time of line 59, each written as one unit
AIRPORT_CODE == <<"KBLM">>
Timestamp == <<"time">>

\* cleanMessage, lines 36-70, for a notice whose members are strings (String and
\* replace do not throw then, and the fallback of line 68 is not returned)
cleanMessage(notam, airportCode) ==
  LET notamNum == IF notam.number # Empty THEN notam.number ELSE notam.id
      numberLine == IF notamNum # Empty
                      THEN <<"#">> \o removeEmojis(notamNum) \o <<"nl">>
                      ELSE Empty
      body == IF notam.text # Empty THEN removeEmojis(notam.text) ELSE Empty
      message == airportCode \o <<" NOTAM", "nl">> \o numberLine \o body
                   \o <<"nl", "Received: ">> \o Timestamp
  IN TrimLines(CollapseNewlines(message))

\* the notices of the queue: index.js:62 formats the formatted notice, so number is the
\* id; notamFetcher.js:90 keeps the notices whose id and text are not empty
Notices ==
  {[id |-> num, number |-> num, text |-> text] :
     num \in SeqsUpTo(Units, MaxNumber) \ {Empty},
     text \in SeqsUpTo(Units, MaxText) \ {Empty}}

\* the variables the sanitizer specification leaves alone
NotSanitizer ==
  <<STARTUP_SEND_LATEST, proc, state, pollingTimer, isPolling, startupProbePending, cyc,
    disk, resetSaving, deliveredBefore, held, lostOK, savedOnce, markLog, FAA_NMS_API_URL,
    dropped, startup, lastPoll, fetchedSome>>

\* index.js:75, a notice of the queue is taken
Receive ==
  /\ cleaning = NoCleaning
  /\ \E notam \in Notices :
       cleaning' = [pos |-> "queued", notam |-> notam, message |-> Empty]
  /\ UNCHANGED NotSanitizer

\* index.js:79, cleanMessage(notam, AIRPORT_CODE)
Clean ==
  /\ cleaning.pos = "queued"
  /\ cleaning' = [cleaning EXCEPT !.pos = "cleaned",
                                  !.message = cleanMessage(cleaning.notam, AIRPORT_CODE)]
  /\ UNCHANGED NotSanitizer

CleanInit == LoadInit

CleanNext ==
  \/ Receive
  \/ Clean

SpecClean == CleanInit /\ [][CleanNext]_vars

(* ------------------------------ properties ----------------------------- *)
\* the notice that the activation of caller c is sending
Current(c) == cyc[c].queue[cyc[c].idx]

C2_AtMostOneCycle ==
  /\ Cardinality({c \in Callers : Active(c)}) <= 1
  /\ isPolling <=> (\E c \in Callers : Active(c))

\* C2 witness: the initial poll of startPolling was dropped by the guard (the interval is
\* set although no cycle of this process has reached its save) while a POST /poll cycle runs
C2_Witness ==
  /\ proc = "up"
  /\ pollingTimer
  /\ ~savedOnce
  /\ Active("manual")
  /\ ~Active("scheduled")

Sent(c) == Len(cyc[c].attempts)

\* every queued notice so far has been attempted once, in queue order
AttemptsFollowQueue ==
  \A c \in Callers :
    /\ Sent(c) = CASE cyc[c].pc = "send" -> cyc[c].idx - 1
                   [] cyc[c].pc = "delay" -> cyc[c].idx
                   [] cyc[c].pc = "save" -> Len(cyc[c].queue)
                   [] OTHER -> 0
    /\ \A i \in 1 .. Sent(c) : cyc[c].attempts[i].id = cyc[c].queue[i]

\* a send that returns marks its id exactly when it succeeded
MarkIffSuccess ==
  \A c \in Callers :
    (Active(c) /\ Len(cyc'[c].attempts) = Sent(c) + 1) =>
      LET a == cyc'[c].attempts[Sent(c) + 1]
      IN /\ a.ok => a.id \in Range(state')
         /\ ~a.ok => state' = state

\* C3: every queued notice is attempted exactly once in the cycle, whatever the earlier
\* sends returned; a successful send marks its id seen and a failed send marks nothing.
C3_PartialFailureIsolation == []AttemptsFollowQueue /\ [][MarkIffSuccess]_vars

\* C3 witness: the whole queue was processed, the first send failed and was not marked,
\* the send after it succeeded and was marked
C3_Witness ==
  \E c \in Callers :
    /\ cyc[c].pc = "save"
    /\ Sent(c) = 2
    /\ ~cyc[c].attempts[1].ok
    /\ cyc[c].attempts[2].ok
    /\ cyc[c].attempts[1].id \notin Range(state)
    /\ cyc[c].attempts[2].id \in Range(state)

\* the queue phase of a cycle writes nothing to the file
FlushOnlyAtEnd ==
  \A c \in Callers :
    (InQueue(c) /\ cyc'[c] # cyc[c] /\ cyc'[c].pc # "idle") => disk' = disk

\* an id enters the in-memory SeenSet only from the file or when a send of it succeeded
MemoryFromSends ==
  Range(state') \subseteq
    Range(state) \cup Range(loadState) \cup UNION {OkOf(cyc'[c]) : c \in Callers}

\* an id enters the file only from the in-memory SeenSet, through a save's argument
DiskFromMemory ==
  /\ Range(Load(disk')) \subseteq
       Range(loadState) \cup UNION {Range(cyc[c].content) : c \in Callers}
  /\ \A c \in Callers :
       Range(cyc'[c].content) \subseteq Range(cyc[c].content) \cup Range(state)

\* C4 (as amended): the SeenSet is flushed only at the end of a cycle, so a crash in the
\* middle of the delivery queue persists none of the marks of that cycle, and every notice
\* it had delivered (not at most one) can be delivered again after restart; none is lost:
\* an id is marked in memory only by a successful send of it, and in the file only from
\* memory.
C4_CrashLosesOnlyMarks == [][FlushOnlyAtEnd /\ MemoryFromSends /\ DiskFromMemory]_vars

\* C4 witness: after an exit in the middle of a queue and a restart, a cycle has sent again
\* two notices that the cut cycle had delivered
C4_Witness ==
  \E c \in Callers : cyc[c].pc = "save" /\ cyc[c].again >= 2 /\ Sent(c) >= 2

\* C4 (original): after an exit in the middle of a delivery queue, at most one notice that
\* the cut cycle had delivered is new again (and so delivered again) after the restart.
C4_Original == \A c \in Callers : cyc[c].again <= 1

\* ids of the sends made so far, in order
SentIds(c) == [i \in 1 .. Sent(c) |-> cyc[c].attempts[i].id]

\* C5 (as amended): in the first cycle of a process with the probe enabled, when the fetch
\* is non-empty and none of its notices is new (every fetched id is already seen), exactly
\* one delivery occurs in the cycle, of the first element of the fetch result.
C5_ProbeSendsFirst ==
  \A c \in Callers :
    (cyc[c].pc = "save" /\ cyc[c].force /\ cyc[c].noneNew /\ cyc[c].first # 0) =>
      SentIds(c) = <<cyc[c].first>>

\* C5 witness: such a cycle, with a prior seen id, has made its one delivery
C5_Witness ==
  \E c \in Callers :
    /\ cyc[c].pc = "save" /\ cyc[c].force /\ cyc[c].noneNew /\ cyc[c].first # 0
    /\ ~cyc[c].seen0
    /\ Sent(c) = 1

\* C5 (original): in the first cycle with the probe enabled, zero prior seen ids and a
\* non-empty fetch, exactly one delivery occurs, of the first fetched element.
C5_Original ==
  \A c \in Callers :
    (cyc[c].pc = "save" /\ cyc[c].force /\ cyc[c].seen0 /\ cyc[c].first # 0) =>
      SentIds(c) = <<cyc[c].first>>

\* the step in which the activation of caller c computes its queue
Diffs(c) == cyc[c].pc = "fetch" /\ cyc'[c].pc \in {"send", "save"}

\* C6: once a cycle of the process has reached its save step, no later cycle of the process
\* appends a probe item to its queue.
C6_ProbeAtMostOnce ==
  [][\A c \in Callers : (Diffs(c) /\ savedOnce) => ~cyc'[c].probe]_vars

\* C6 witness: with the probe enabled, a later cycle fetched notices none of which was new
\* and sent nothing
C6_Witness ==
  \E c \in Callers :
    /\ STARTUP_SEND_LATEST /\ ~cyc[c].force
    /\ cyc[c].pc = "save" /\ cyc[c].noneNew /\ cyc[c].first # 0
    /\ Sent(c) = 0

Min(a, b) == IF a < b THEN a ELSE b
\* the last n entries of a log, oldest first
LastInserted(log, n) ==
  [i \in 1 .. Min(n, Len(log)) |-> log[Len(log) - Min(n, Len(log)) + i]]

Distinct(s) == \A i, j \in 1 .. Len(s) : s[i] = s[j] => i = j

\* C7: after distinct ids have been marked in order starting from an empty SeenSet, the
\* SeenSet is exactly the last MaxSeen of them in insertion order.
C7_FifoEviction == Distinct(markLog) => state = LastInserted(markLog, MaxSeen)

\* C7 witness: MaxSeen + MaxExtra distinct ids have been marked
C7_Witness ==
  /\ Len(markLog) = MaxSeen + MaxExtra
  /\ Distinct(markLog)
  /\ Len(state) = MaxSeen

\* C8: the in-memory SeenSet never holds more than MaxSeen ids.
C8_LengthBounded == Len(state) <= MaxSeen

\* C8 witness: a send has just been marked into a SeenSet that was loaded full: the oldest
\* loaded id is gone, the next one has moved to the front
C8_Witness ==
  /\ disk.valid
  /\ Len(disk.seenNotams) = MaxSeen
  /\ Len(state) = MaxSeen
  /\ state[1] = disk.seenNotams[2]
  /\ disk.seenNotams[1] \notin Range(state)
  /\ \E c \in Callers : cyc[c].pc = "delay" /\ cyc[c].attempts[Sent(c)] = [id |-> state[MaxSeen], ok |-> TRUE]

\* C9: after a notice has been sent successfully, no later notice with the same id is sent
\* in the same cycle.
C9_NoIntraCycleDuplicate ==
  \A c \in Callers : cyc[c].pc = "send" => Current(c) \notin OkIds(c)

\* C11: a fetch failure, the adapter throwing included, is handled as zero notices: the
\* cycle goes on from its fetch to its queue or its persist step (and from there to the
\* clearing of the guard), it does not end without having reached the persist step.
C11_FetchFailureReachesPersist ==
  [][\A c \in Callers :
       (cyc[c].pc = "fetch" /\ cyc'[c].pc # "fetch" /\ proc' \notin {"down", "exited"}) =>
         cyc'[c].pc \in {"send", "save"}]_vars

\* C12: whatever the stored file is, loadState returns a well-formed SeenSet and startup
\* proceeds to the first poll cycle.
C12_ColdStartProceeds ==
  startup.pos \in {"polling", "rejected", "diffed", "cycleThrew"} =>
    (startup.value.shape = "record" /\ startup.pos # "rejected")

\* C13: a termination signal does not interrupt an in-flight cycle: the process does not
\* exit on a signal while an activation of pollNotams that has started has not completed.
C13_SignalLetsCycleFinish ==
  [][(proc # "exited" /\ proc' = "exited") => \A c \in Callers : ~Active(c)]_vars

\* C14: when a POST /reset request completes, the in-memory SeenSet is empty and the
\* persisted record is empty, also when a poll cycle is in progress.
C14_ResetClearsBoth ==
  [][(resetSaving /\ ~resetSaving' /\ proc' \notin {"down", "exited"}) =>
       (state' = <<>> /\ Load(disk') = <<>>)]_vars

\* C15: between the diff step and the persist step of a cycle in progress, the in-memory
\* SeenSet changes only by that cycle marking the id of a send that has just returned.
C15_OnlyCycleMutates ==
  [][((\E c \in Callers : InQueue(c)) /\ state' # state
        /\ proc' \notin {"down", "exited"}) =>
       \E c \in Callers : cyc[c].pc = "send" /\ cyc'[c].pc = "delay"]_vars

\* an upstream record without identifier and with empty location and start time
NoIdentity(raw) == raw.id = Empty /\ raw.location = Empty /\ raw.startTime = Empty

\* C16: a notice without stable upstream identifier whose content fields used for the
\* synthesized id are all empty is classified new in every poll cycle in which the
\* source returns it.
C16_FallbackAlwaysNew ==
  (lastPoll # NoPoll /\ NoIdentity(lastPoll.raw)) => lastPoll.new

\* C17: an upstream record without identifier that a fetch returns is, in that cycle,
\* either queued for delivery or a record that an earlier cycle delivered successfully.
C17_NoSilentDrop ==
  (lastPoll # NoPoll /\ lastPoll.raw.id = Empty) =>
    (lastPoll.new \/ lastPoll.raw \in lastPoll.earlier)

\* an activation starts only in a step taken while no cycle is executing, and starts at
\* its fetch
StartsOnlyWhenIdle ==
  \A c \in Callers :
    (cyc[c].pc = "idle" /\ cyc'[c].pc # "idle") =>
      (~isPolling /\ isPolling' /\ cyc'[c].pc = "fetch")

\* the step in which the guard drops an invocation starts no fetch and writes nothing
DropStartsNothing ==
  (~dropped /\ dropped') => (isPolling /\ isPolling' /\ cyc' = cyc /\ disk' = disk)

\* when the running cycle finishes, no cycle is executing, whether or not an invocation
\* was dropped meanwhile
NothingDeferred ==
  \A c \in Callers :
    (cyc[c].pc # "idle" /\ cyc'[c].pc = "idle") =>
      (~isPolling' /\ \A k \in Callers : cyc'[k].pc = "idle")

\* C18: a poll trigger that arrives while a cycle is executing is dropped, not deferred or
\* queued: it starts no fetch, no cycle runs on its account after the running cycle has
\* finished, and every cycle is started by a trigger that arrived while idle.
C18_DroppedNotQueued ==
  [][StartsOnlyWhenIdle /\ DropStartsNothing /\ NothingDeferred]_vars

\* C18 witness: an invocation was dropped, the cycle that was running has saved and
\* finished, and no cycle is executing
C18_Witness ==
  /\ dropped
  /\ Running
  /\ savedOnce
  /\ ~isPolling
  /\ \A c \in Callers : ~Active(c)

\* saveState is called after every queued notice has been attempted, with the SeenSet of
\* that moment
SaveAfterQueue ==
  \A c \in Callers :
    (cyc[c].pc # "save" /\ cyc'[c].pc = "save") =>
      (Len(cyc'[c].attempts) = Len(cyc'[c].queue) /\ cyc'[c].content = state')

\* after its save the activation ends: it sends and saves nothing more
SaveIsLast ==
  \A c \in Callers :
    (cyc[c].pc = "save" /\ cyc'[c] # cyc[c]) => cyc'[c].pc = "idle"

\* an activation that has built its queue ends only through its save, unless the process
\* ends
NoEndWithoutSave ==
  \A c \in Callers :
    (InQueue(c) /\ cyc'[c].pc = "idle") => proc' \in {"down", "exited"}

\* the file changes only when a save of a cycle or of POST /reset completes, or when the
\* process ends with such a save in flight
WritesOnlyBySaves ==
  disk' # disk =>
    \/ \E c \in Callers : cyc[c].pc = "save" /\ cyc'[c].pc = "idle"
    \/ resetSaving /\ ~resetSaving'

SeenSetDistinct == Distinct(state)

\* marking an id that the SeenSet holds leaves the SeenSet as it is
MarkSeenAgainNoOp ==
  \A c \in Callers :
    (cyc[c].pc = "send" /\ cyc'[c].pc = "delay" /\ Current(c) \in Range(state)) =>
      state' = state

\* C20: markNotamAsSeen is an idempotent insert: marking a present id leaves the SeenSet
\* unchanged (same members, same order, no eviction), and the SeenSet holds each id at
\* most once in every reachable state.
C20_MarkSeenIdempotent == []SeenSetDistinct /\ [][MarkSeenAgainNoOp]_vars

\* C20 witness: the startup probe item, whose id is the oldest of a full SeenSet loaded
\* from the file, has been sent successfully and marked again: it is still the oldest
C20_Witness ==
  \E c \in Callers :
    /\ cyc[c].pc = "delay" /\ cyc[c].probe
    /\ cyc[c].attempts[1].ok
    /\ Len(state) = MaxSeen
    /\ state[1] = cyc[c].attempts[1].id
    /\ disk.valid /\ state = disk.seenNotams


\* the positions of a fetched list whose id is no member of the SeenSet
Kept(list, seen) ==
  {i \in 1 .. Len(list) : \A j \in 1 .. Len(seen) : seen[j] # list[i]}

\* new holds exactly the kept notices of list, each once, in the order of list
ExactlyTheUnseen(new, list, seen) ==
  /\ Len(new) = Cardinality(Kept(list, seen))
  /\ \A k \in 1 .. Len(new) :
       \E i \in Kept(list, seen) :
         /\ Cardinality({j \in Kept(list, seen) : j <= i}) = k
         /\ new[k] = list[i]

\* the diff step of the initial poll
FirstDiffStep ==
  startup.pos = "polling" /\ startup'.pos = "diffed" /\ startup.value.shape = "record"

\* the queue is the new-set when a notice is new, and the sends made are its prefix
AttemptsInFetchOrder ==
  startup.pos = "diffed" =>
    /\ startup.newNotams # <<>> => startup.queue = startup.newNotams
    /\ Len(startup.attempts) <= Len(startup.queue)
    /\ \A k \in 1 .. Len(startup.attempts) :
         startup.attempts[k].id = startup.queue[k]

\* C21: getNewNotams(notams, state) returns exactly the fetched notices whose id is not
\* in the SeenSet, in the order of the fetch, and leaves the SeenSet as it was; the
\* deliveries of the cycle are attempted in that same order (the queue is the new-set
\* when there is a new notice, and the attempts are a prefix of the queue)
C21_DiffNewExactInOrder ==
  /\ [][FirstDiffStep =>
          /\ ExactlyTheUnseen(startup'.newNotams, startup'.fetched,
                              startup.value.seenNotams)
          /\ startup'.value = startup.value]_vars
  /\ []AttemptsInFetchOrder

\* C21 witness: three notices fetched, the middle one already seen; the first and the
\* third were attempted, in that order
C21_Witness ==
  /\ startup.pos = "diffed"
  /\ Len(startup.fetched) = 3
  /\ startup.fetched[2] \in Range(startup.file.seenNotams)
  /\ startup.fetched[1] # startup.fetched[3]
  /\ Len(startup.attempts) = 2
  /\ startup.attempts[1].id = startup.fetched[1]
  /\ startup.attempts[2].id = startup.fetched[3]


\* a code point of a stripped range starts at position i of str
StrippedAt(str, i) ==
  \/ str[i] \in {"vs", "zwj"}
  \/ str[i] = "hi" /\ i < Len(str) /\ str[i + 1] = "lo"

HasStripped(str) == \E i \in 1 .. Len(str) : StrippedAt(str, i)

HasNewlineRun(str) ==
  \E i \in 1 .. Len(str) - 2 : str[i] = "nl" /\ str[i + 1] = "nl" /\ str[i + 2] = "nl"

\* header line, #number line, body, Received line, in this order
WellComposed(message) ==
  /\ Len(message) >= 7
  /\ SubSeq(message, 1, 4) = AIRPORT_CODE \o <<" NOTAM", "nl", "#">>
  /\ SubSeq(message, Len(message) - 2, Len(message)) = <<"nl", "Received: ">> \o Timestamp
  /\ \E i \in 5 .. Len(message) - 3 : message[i] = "nl"
  /\ \A i \in 5 .. Len(message) - 2 : message[i] \in Units

\* C22: for any notice whose text or number holds code points of the stripped ranges and
\* runs of newlines, cleanMessage(notam, code) returns a message with none of those code
\* points and no run of 3 or more newlines, which starts with "<code> NOTAM", ends with
\* the "Received: " line, and has its parts in the order header, #number line, body,
\* Received line.
C22_CleanOutput ==
  cleaning.pos = "cleaned" =>
    /\ ~HasStripped(cleaning.message)
    /\ ~HasNewlineRun(cleaning.message)
    /\ WellComposed(cleaning.message)


\* a cycle appends the probe item exactly when the probe is enabled, no earlier cycle of
\* the process has reached its save step, its fetch is not empty and nothing is new
ProbeExactlyBeforeFirstSave ==
  \A c \in Callers :
    Diffs(c) =>
      (cyc'[c].probe <=>
         (STARTUP_SEND_LATEST /\ ~savedOnce /\ cyc'[c].noneNew /\ cyc'[c].first # 0))

\* the probe item is the first fetched notice and is the only send of its cycle
ProbeItemSentOnce ==
  \A c \in Callers :
    (cyc[c].pc = "save" /\ cyc[c].probe) => SentIds(c) = <<cyc[c].first>>

\* C23 (as amended): with the probe enabled, the probe is applied in the first cycle of the
\* process that reaches its save step and in no other: when the fetch of that cycle returns
\* at least one notice and the new-set is empty, the first fetched notice is queued and
\* sent once although its id is seen. A cycle that fetched nothing and saved has used the
\* probe up.
C23_ProbeInFirstSavingCycle ==
  /\ [][ProbeExactlyBeforeFirstSave]_vars
  /\ []ProbeItemSentOnce

\* C23 witness: the probe item, whose id is in the SeenSet, has been sent
C23_Witness ==
  \E c \in Callers :
    /\ cyc[c].pc = "delay" /\ cyc[c].probe
    /\ SentIds(c) = <<cyc[c].first>>
    /\ cyc[c].first \in Range(state)

\* C23 (original): with the probe enabled, the first cycle of the process whose fetch
\* returns at least one notice appends the probe item when its new-set is empty, also when
\* earlier cycles of the process fetched nothing.
C23_Original ==
  [][\A c \in Callers :
       (Diffs(c) /\ STARTUP_SEND_LATEST /\ ~fetchedSome
          /\ cyc'[c].first # 0 /\ cyc'[c].noneNew) => cyc'[c].probe]_vars


\* at most one send is in flight, and every earlier send of the cycle has returned
OneSendInFlight ==
  /\ Cardinality({c \in Callers : cyc[c].pc = "send"}) <= 1
  /\ \A c \in Callers :
       /\ cyc[c].pc = "send" => Sent(c) = cyc[c].idx - 1
       /\ cyc[c].pc = "delay" => Sent(c) = cyc[c].idx

\* a send that returns is followed by the delay, whatever its result (unless the process
\* ends)
DelayFollowsEverySend ==
  \A c \in Callers :
    (cyc[c].pc = "send" /\ cyc'[c] # cyc[c]) =>
      \/ cyc'[c].pc = "delay" /\ Len(cyc'[c].attempts) = Sent(c) + 1
      \/ cyc'[c].pc = "idle" /\ proc' \in {"down", "exited"}

\* a send starts from the diff (the first of the queue) or from an elapsed delay (the next
\* of the queue)
SendStartsAfterDelay ==
  \A c \in Callers :
    (cyc[c].pc # "send" /\ cyc'[c].pc = "send") =>
      \/ cyc[c].pc = "fetch" /\ cyc'[c].idx = 1 /\ cyc'[c].attempts = <<>>
      \/ cyc[c].pc = "delay" /\ cyc'[c].idx = cyc[c].idx + 1
           /\ cyc'[c].attempts = cyc[c].attempts

\* C24: within a cycle the sends are strictly sequential: a send starts only after the
\* previous send has returned its result and the inter-message delay after it has elapsed,
\* the delay follows every send whether it succeeded or failed, and no two sends are in
\* flight at the same time.
C24_SendsSequential ==
  /\ []OneSendInFlight
  /\ [][DelayFollowsEverySend /\ SendStartsAfterDelay]_vars

\* C24 witness: the second send of a cycle is in flight, after the first one failed
C24_Witness ==
  \E c \in Callers :
    /\ cyc[c].pc = "send" /\ cyc[c].idx = 2
    /\ ~cyc[c].attempts[1].ok


\* the send of the notice with this id has just returned success in the running cycle
SendSucceeded(id) ==
  \E c \in Callers :
    /\ cyc[c].pc = "send" /\ cyc'[c].pc = "delay"
    /\ Current(c) = id
    /\ cyc'[c].attempts = Append(cyc[c].attempts, [id |-> id, ok |-> TRUE])

\* startPolling, line 117, installs the SeenSet read from the file
LoadInstalls(id) == proc = "loading" /\ proc' # "loading" /\ id \in Range(loadState)

\* C26 (as amended): the in-memory SeenSet grows only through successful sends and the
\* startup load: whenever an id is added to it, either the transport call for the notice
\* with that id has just returned success in the running cycle, or startPolling has
\* installed the persisted SeenSet that holds it; a failed send, a fetched notice that is
\* not queued and a dropped poll add nothing.
C26_GrowsBySuccessfulSends ==
  [][\A id \in Range(state') \ Range(state) : SendSucceeded(id) \/ LoadInstalls(id)]_vars

\* C26 witness: an invocation was dropped during a cycle whose first send succeeded and
\* whose second send failed; the SeenSet holds the id of the first only
C26_Witness ==
  \E c \in Callers :
    /\ cyc[c].pc = "delay" /\ Sent(c) = 2 /\ dropped
    /\ cyc[c].attempts[1].ok /\ ~cyc[c].attempts[2].ok
    /\ cyc[c].attempts[1].id # cyc[c].attempts[2].id
    /\ Range(state) = {cyc[c].attempts[1].id}

\* C26 (original): whenever an id is added to the in-memory SeenSet, the transport call
\* for a notice with that id returned success earlier in the same cycle.
C26_Original ==
  [][\A id \in Range(state') \ Range(state) : SendSucceeded(id)]_vars


\* startPolling resumes from its await of loadState and assigns state
LoadCompletes == proc = "loading" /\ proc' \in {"initial", "up"}

\* C27: the SeenSet is loaded before any poll cycle starts: no cycle, including one
\* triggered by POST /poll while startPolling is awaiting the load, computes its new-set
\* against the not-yet-loaded empty SeenSet, and the completion of the load never replaces
\* an in-memory SeenSet that a cycle has already mutated.
C27_LoadedBeforeAnyCycle ==
  [][/\ \A c \in Callers : Diffs(c) => proc # "loading"
     /\ LoadCompletes => (state = <<>> /\ \A c \in Callers : OkIds(c) = {})]_vars

(* ------------------ a process that is never stopped -------------------- *)
\* the process starts without a file, or with the file a previous run left after it had
\* delivered the notice with id Watched (Spec reaches both with the process down)
LeftFiles == {NoFile, File(<<Watched>>)}

\* the ids the source returns to the process that is never stopped
LiveIds == 1 .. NumLiveIds

LiveInit ==
  /\ STARTUP_SEND_LATEST \in BOOLEAN
  /\ proc = "down"
  /\ state = <<>>
  /\ pollingTimer = FALSE
  /\ isPolling = FALSE
  /\ startupProbePending = TRUE
  /\ cyc = [c \in Callers |-> Idle]
  /\ disk \in LeftFiles
  /\ resetSaving = FALSE
  /\ deliveredBefore = FALSE
  /\ held = {}
  /\ savedOnce = FALSE
  /\ lostOK = {}
  /\ markLog = <<>>
  /\ FAA_NMS_API_URL = "parses"
  /\ dropped = FALSE
  /\ startup = NoStartup
  /\ lastPoll = NoPoll
  /\ fetchedSome = FALSE
  /\ cleaning = NoCleaning

LiveNext ==
  \/ Start
  \/ LoadDone
  \/ Tick
  \/ ManualPoll
  \/ \E c \in Callers, list \in SeqsUpTo(LiveIds, MaxFetch) : FetchReturn(c, list)
  \/ \E c \in Callers, ok \in SendResults : SendReturn(c, ok)
  \/ \E c \in Callers : DelayDone(c)
  \/ \E c \in Callers, outcome \in SaveOutcomes : SaveDone(c, outcome)
  \/ Reset
  \/ \E outcome \in SaveOutcomes : ResetSaveDone(outcome)

\* the source returns a result that holds the notice with id x
FetchWith(x) ==
  \E c \in Callers, list \in SeqsUpTo(LiveIds, MaxFetch) :
    x \in Range(list) /\ FetchReturn(c, list)

\* the transport delivers the notice with id x
SendOk(x) == \E c \in Callers : cyc[c].pc = "send" /\ Current(c) = x /\ SendReturn(c, TRUE)

\* every awaited operation completes and the interval keeps firing; the source keeps
\* returning each notice and the transport eventually succeeds on it
LiveFairness ==
  /\ WF_vars(Start)
  /\ WF_vars(LoadDone)
  /\ WF_vars(Tick)
  /\ \A c \in Callers :
       /\ WF_vars(\E list \in SeqsUpTo(LiveIds, MaxFetch) : FetchReturn(c, list))
       /\ WF_vars(\E ok \in SendResults : SendReturn(c, ok))
       /\ WF_vars(DelayDone(c))
       /\ WF_vars(\E outcome \in SaveOutcomes : SaveDone(c, outcome))
  /\ \A x \in LiveIds : SF_vars(FetchWith(x)) /\ SF_vars(SendOk(x))

LiveSpec == LiveInit /\ [][LiveNext]_vars /\ LiveFairness

\* the same process, with either kind of configured URL: the fetch returns or throws
GuardInit == Init

GuardNext ==
  \/ LiveNext
  \/ \E c \in Callers : FetchThrows(c)

\* every awaited operation of a cycle settles: the fetch (it returns, or new URL throws),
\* the send, the delay timer, the save
GuardFairness ==
  \A c \in Callers :
    /\ WF_vars(\E list \in SeqsUpTo(LiveIds, MaxFetch) : FetchReturn(c, list))
    /\ WF_vars(FetchThrows(c))
    /\ WF_vars(\E ok \in SendResults : SendReturn(c, ok))
    /\ WF_vars(DelayDone(c))
    /\ WF_vars(\E outcome \in SaveOutcomes : SaveDone(c, outcome))

GuardSpec == GuardInit /\ [][GuardNext]_vars /\ GuardFairness

\* the same process when every fs.writeFile of saveState succeeds
SavedInit == Init

SavedNext ==
  \/ Start
  \/ LoadDone
  \/ Tick
  \/ ManualPoll
  \/ \E c \in Callers, list \in SeqsUpTo(LiveIds, MaxFetch) : FetchReturn(c, list)
  \/ \E c \in Callers : FetchThrows(c)
  \/ \E c \in Callers, ok \in SendResults : SendReturn(c, ok)
  \/ \E c \in Callers : DelayDone(c)
  \/ \E c \in Callers : SaveDone(c, "written")
  \/ Reset
  \/ ResetSaveDone("written")

SpecSaved == SavedInit /\ [][SavedNext]_vars

\* the guard is cleared in the step in which the running cycle ends, by return or by throw
EndReleasesGuard ==
  \A c \in Callers : (Active(c) /\ cyc'[c].pc = "idle") => (isPolling /\ ~isPolling')

\* the guard is cleared by the end of the running cycle only; the step in which an
\* invocation is dropped leaves it set
OnlyEndReleasesGuard ==
  /\ (isPolling /\ ~isPolling') => \E c \in Callers : Active(c) /\ cyc'[c].pc = "idle"
  /\ (~dropped /\ dropped') => (isPolling /\ isPolling')

\* with the guard clear no activation is left, so the next trigger starts a cycle
IdleWhenReleased == ~isPolling => \A c \in Callers : ~Active(c)

\* C25: the re-entrancy guard is always released: every cycle that sets the in-progress
\* flag eventually clears it, also when the fetch throws, so the system returns to idle and
\* a later trigger can start a new cycle; an invocation dropped by the guard never clears
\* the flag of the running cycle.
C25_GuardReleased ==
  /\ isPolling ~> ~isPolling
  /\ [][EndReleasesGuard /\ OnlyEndReleasesGuard]_vars
  /\ []IdleWhenReleased

\* C25 witness: the fetch of the initial cycle threw, an invocation was dropped while it
\* ran, and the guard is clear
C25_Witness ==
  /\ FAA_NMS_API_URL = "malformed"
  /\ proc = "up"
  /\ dropped
  /\ ~isPolling

\* the send of a new (not probe) notice with id x has just failed
FailedNew(x) ==
  \E c \in Callers :
    /\ cyc[c].pc = "delay" /\ ~cyc[c].probe
    /\ cyc[c].attempts[Sent(c)] = [id |-> x, ok |-> FALSE]

\* a send that fails leaves the SeenSet as it was
FailureMarksNothing ==
  \A c \in Callers :
    (cyc[c].pc = "send" /\ cyc'[c].pc = "delay" /\ ~cyc'[c].attempts[Sent(c) + 1].ok) =>
      state' = state

\* a cycle whose fetch starts with an unseen notice queues it first
UnseenIsQueued ==
  \A c \in Callers :
    (Diffs(c) /\ cyc'[c].first # 0 /\ cyc'[c].first \notin Range(state)) =>
      (cyc'[c].queue # <<>> /\ cyc'[c].queue[1] = cyc'[c].first)

\* C10 (as amended): a failed send marks nothing, so a notice that failed as a new notice
\* (not as the startup probe item, whose id is already seen and which is not retried) stays
\* unseen until a send of its id succeeds; a cycle that fetches it while unseen queues it
\* again; and when the source keeps returning it and the transport eventually succeeds,
\* its id is eventually marked seen.
C10_FailedStaysEligible ==
  /\ [][FailureMarksNothing /\ UnseenIsQueued]_vars
  /\ \A x \in LiveIds : FailedNew(x) ~> (x \in Range(state))

\* C10 witness: a cycle has processed its queue; the send of a new notice failed in it and
\* the id of that notice is not in the SeenSet
C10_Witness ==
  \E c \in Callers :
    /\ cyc[c].pc = "save" /\ ~cyc[c].probe
    /\ \E i \in 1 .. Sent(c) :
         ~cyc[c].attempts[i].ok /\ cyc[c].attempts[i].id \notin Range(state)

\* C10 (original): the id of a notice whose send failed is not in the SeenSet after the
\* cycle.
C10_Original ==
  \A c \in Callers :
    cyc[c].pc = "save" =>
      \A i \in 1 .. Sent(c) : ~cyc[c].attempts[i].ok => cyc[c].attempts[i].id \notin Range(state)

\* C28: whenever no poll cycle and no reset is in progress and every save so far has
\* succeeded, the persisted record equals the in-memory SeenSet (after the first cycle of
\* startup); in particular a reset interleaved with a running cycle leaves the two in
\* agreement once both have finished.
C28_DiskEqualsMemory ==
  (proc = "up" /\ savedOnce /\ ~isPolling /\ ~resetSaving) => loadState = state

====
